---- MODULE Spec2Model ----
(***************************************************************************)
(* Model of the astro-rag worker: the sliding-window chunker of the        *)
(* ingestion workflow (RAGWorkflow.chunkText), the query pipeline          *)
(* (GET /query -> answerQuery -> retrieveDocs / runAgent ->                *)
(* callGeminiWithContext), buildContextSnippet, POST /ingest with the      *)
(* run of a workflow instance, and the store and index steps of two        *)
(* instances that run side by side.                                        *)
(*                                                                         *)
(* Strings are sequences of one-character strings; JavaScript indices are  *)
(* 0-based, so character i of the program is text[i + 1] here.             *)
(* Similarity scores are integers in ten-thousandths (0.72 is 7200).       *)
(***************************************************************************)
EXTENDS Integers, Sequences, FiniteSets, TLC

\* ------------------------------------------------------------------------
\* Bounds of the model
\* ------------------------------------------------------------------------

\* longest text handed to chunkText
MaxTextLen == 7

\* largest chunkSize tried; the loop is entered only when len(text) > chunkSize
MaxChunkSize == MaxTextLen - 1

\* a loop that is still running after this many iterations is cut off: a
\* loop whose window advances makes at most len(text) iterations, so only a
\* loop that never ends gets here, and the worker runs it until the runtime
\* ends the invocation for its CPU time or memory
MaxIterations == MaxTextLen + 1

\* characters of the texts: a letter, the whitespace, the sentence ends
Chars == {"a", " ", "."}

Whitespace == {" "}

Texts == UNION {[1..n -> Chars] : n \in 0..MaxTextLen}

Max2(a, b) == IF a >= b THEN a ELSE b

Min2(a, b) == IF a <= b THEN a ELSE b

\* ------------------------------------------------------------------------
\* JavaScript string primitives used by chunkText
\* ------------------------------------------------------------------------

\* String.prototype.lastIndexOf(ch, from): the largest 0-based index
\* k <= from with text[k] = ch, or -1; from is clamped to 0..len.
LastIndexOf(text, ch, from) ==
    LET f == Max2(0, Min2(from, Len(text)))
        hits == {k \in 0..Min2(f, Len(text) - 1) : text[k + 1] = ch}
    IN  IF hits = {} THEN -1 ELSE CHOOSE k \in hits : \A j \in hits : j <= k

\* a slice index as String.prototype.slice resolves it: a negative index
\* counts from the end of the string, and the result is clamped to 0..len
SliceIndex(text, i) ==
    IF i < 0 THEN Max2(Len(text) + i, 0) ELSE Min2(i, Len(text))

\* String.prototype.trim applied to text.slice(a, b), as the 0-based
\* half-open range <<from, to>> of the characters that are kept
\* (from = to when nothing is left)
TrimmedRange(text, a, b) ==
    LET lo == SliceIndex(text, a)
        hi == SliceIndex(text, b)
        solid == {k \in lo..(hi - 1) : text[k + 1] \notin Whitespace}
    IN  IF solid = {} THEN <<lo, lo>>
        ELSE <<CHOOSE k \in solid : \A j \in solid : k <= j,
               (CHOOSE k \in solid : \A j \in solid : j <= k) + 1>>

\* the characters of the 0-based half-open range r of text
Substring(text, r) == SubSeq(text, r[1] + 1, r[2])

\* ------------------------------------------------------------------------
\* RAGWorkflow.chunkText
\* ------------------------------------------------------------------------

\* the ratios of chunkSize below which a boundary is not used, in tenths
SentenceRatioTenths == 7

WordRatioTenths == 8

\* Math.max(sentenceEnd, questionEnd, exclamationEnd)
LastSentenceEnd(text, end) ==
    Max2(LastIndexOf(text, ".", end),
         Max2(LastIndexOf(text, "?", end), LastIndexOf(text, "!", end)))

\* lastSentenceEnd > start + chunkSize * 0.7
SentenceQualifies(pos, from, size) ==
    10 * pos > 10 * from + SentenceRatioTenths * size

\* lastSpace > start + chunkSize * 0.8
SpaceQualifies(pos, from, size) ==
    10 * pos > 10 * from + WordRatioTenths * size

\* the end of the window that starts at from
WindowEnd(text, from, size) ==
    LET end == from + size
        lastSentenceEnd == LastSentenceEnd(text, end)
        lastSpace == LastIndexOf(text, " ", end)
    IN  IF end < Len(text)
        THEN IF SentenceQualifies(lastSentenceEnd, from, size)
             THEN lastSentenceEnd + 1
             ELSE IF SpaceQualifies(lastSpace, from, size)
                  THEN lastSpace
                  ELSE end
        ELSE end

\* start = end - overlap
NextStart(end, lap) == end - lap

\* the short-text test with < in place of <=
FitsOneChunkStrictly(text, size) == Len(text) = 0 \/ Len(text) < size

\* if (!text || text.length <= chunkSize) return [text]
FitsOneChunk(text, size) == Len(text) = 0 \/ Len(text) <= size

VARIABLES
    cpc,        \* position in chunkText: "call", "loop", "done"
    text,       \* the text argument
    chunkSize,  \* the chunkSize argument
    overlap,    \* the overlap argument
    start,      \* the loop's window start
    chunks,     \* the chunks array
    windows,    \* history: <<start, end>> of every window cut so far
    spans,      \* history: the range of text each pushed chunk was taken from
    origin,     \* <<c>> when text is the chunk c of an earlier call, else <<>>
    chunkedData \* what chunkTextWithMetadata returns for the chunks

cvars == <<cpc, text, chunkSize, overlap, start, chunks, windows, spans, origin,
           chunkedData>>

VARIABLES
    qpc,              \* the call the request waits for: "idle", "embedding",
                      \* "vectorQuery", "storeFetch", "webSearch",
                      \* "completion", or "done"
    params,           \* the mode, topK and scoreThreshold query parameters
    qmode,            \* answerQuery's mode argument
    qtopK,            \* answerQuery's topK argument
    qthreshold,       \* answerQuery's scoreThreshold argument
    searchConfigured, \* env holds GOOGLE_SEARCH_API_KEY and GOOGLE_CSE_ID
    kRequested,       \* the topK handed to VECTORIZE.query
    vmatches,         \* vectorQuery.matches
    qrows,            \* results: the rows the SELECT on table pdfs returned
    retrieval,        \* how retrieveDocs ended: [threw, matches]
    retrievalFailure, \* history: the call of retrieveDocs that failed
    dbResults,        \* runAgent's dbResults
    webInvoked,       \* history: googleSearchTool was called
    webOutcome,       \* history: how the search request ended
    context,          \* the blocks of the context handed to the completion
    sysPrompt,        \* the system prompt handed to the completion
    completion,       \* history: how the completion request ended
    calls,            \* history: the requests made to collaborators, in order
    result,           \* what answerQuery returned or threw
    response          \* the response of the route

qvars == <<qpc, params, qmode, qtopK, qthreshold, searchConfigured, kRequested,
           vmatches, qrows, retrieval, retrievalFailure, dbResults, webInvoked,
           webOutcome, context, sysPrompt, completion, calls, result, response>>

VARIABLES
    bpc,               \* position in buildContextSnippet: "call", "done"
    bmatches,          \* the matches argument
    includeLimitChars, \* the includeLimitChars argument
    parts,             \* the parts array, joined into contextText
    bprovenance        \* the provenance array

bvars == <<bpc, bmatches, includeLimitChars, parts, bprovenance>>

VARIABLES
    worker,     \* the worker that serves: "src/index.js" or "part_004"
    ipc,        \* what POST /ingest waits for: "idle", "ec2", "create", "done"
    ibody,      \* the text, filename and pdfUrl of the request body
    createSite, \* the RAG_WORKFLOW.create call under way: "ec2", "fallback",
                \* "plain", or "none"
    ec2Data,    \* the body of the EC2 answer: how many chunks and embeddings
    iresponse,  \* the response of POST /ingest
    instances,  \* the params of the workflow instances created, in order
    icalls,     \* history: the calls the route made, in order
    started,    \* how many instances have begun to run
    wpc,        \* what the run waits for: "none", "fetch", "probe",
                \* "altFetch", "toMarkdown", "insert", "embed", "upsert", or
                \* how it ended: "complete", "errored"
    payload,    \* event.payload of the run
    wchunks,    \* the chunks the run processes, by number
    records,    \* the ids of the records the run has created
    wvectors,   \* the embeddings of the run, each named by its chunk
    store,      \* table pdfs: the rows inserted so far
    index,      \* the vector index: the entries upserted so far
    extracted,  \* history: where the text of a local run came from
    fetchedOk,  \* history: the fetch of pdfUrl answered OK
    wlog        \* history: the calls of the run with their outcomes

ivars == <<worker, ipc, ibody, createSite, ec2Data, iresponse, instances,
           icalls, started, wpc, payload, wchunks, records, wvectors, store,
           index, extracted, fetchedOk, wlog>>

VARIABLES
    runWorker,   \* the worker whose workflow runs
    runInput,    \* per run: its chunks and the embeddings of its payload
    runPc,       \* per run: "insert", "embed", "upsert", "complete", "errored"
    runRecords,  \* per run: the ids of the records it has created
    runVectors,  \* per run: its embeddings, each named by its chunk
    pdfs,        \* table pdfs: the rows inserted so far, by all runs
    vectorize,   \* the vector index: the entries upserted so far, by all runs
    readerPc,    \* a query beside the runs: "idle", "select", "done"
    readerIds,   \* the ids of the matches the query got from the index
    readerRows   \* the ids of the rows the query then got from the store

rvars == <<runWorker, runInput, runPc, runRecords, runVectors, pdfs, vectorize,
           readerPc, readerIds, readerRows>>

vars == <<cvars, qvars, bvars, ivars, rvars>>

\* the variables that chunkText, a /query request and buildContextSnippet
\* leave alone
offChunk == <<qvars, bvars, ivars, rvars>>

offQuery == <<cvars, bvars, ivars, rvars>>

offSnippet == <<cvars, qvars, ivars, rvars>>

\* the variables that POST /ingest and a workflow run leave alone
offIngest == <<cvars, qvars, bvars, rvars>>

\* the variables that the runs side by side and the query beside them leave
\* alone
offRuns == <<cvars, qvars, bvars, ivars>>

\* filename || 'untitled' of a request without a filename
FilenameToStore == "untitled"

\* the map with the 1-based position as chunkIndex
WithMetadataOneBased(cs, filename, str) ==
    [i \in 1..Len(cs) |->
        [text |-> cs[i], filename |-> filename, chunkIndex |-> i,
         totalChunks |-> Len(cs), chunkSize |-> Len(cs[i]),
         originalTextLength |-> Len(str)]]

\* chunkTextWithMetadata: chunks.map((chunk, index) => ...) over the chunks
\* that chunkText returned for str
WithMetadata(cs, filename, str) ==
    [i \in 1..Len(cs) |->
        [text |-> cs[i], filename |-> filename, chunkIndex |-> i - 1,
         totalChunks |-> Len(cs), chunkSize |-> Len(cs[i]),
         originalTextLength |-> Len(str)]]

\* the callers pass an overlap below chunkSize (8000 and 500, 1000 and 200
\* by default), so the loop is entered with such an overlap only; a text
\* that fits one chunk is tried with every overlap
LoopHasSmallerOverlap(str, size, lap) == Len(str) > size => lap < size

ChunkInit ==
    /\ cpc = "call"
    /\ text \in Texts
    /\ chunkSize \in 1..MaxChunkSize
    /\ overlap \in 0..MaxChunkSize
    /\ LoopHasSmallerOverlap(text, chunkSize, overlap)
    /\ start = 0
    /\ chunks = <<>>
    /\ windows = <<>>
    /\ spans = <<>>
    /\ origin = <<>>
    /\ chunkedData = <<>>

\* chunkTextWithMetadata up to the loop of chunkText: the short-text return, or let start = 0
ChunkTextEnter ==
    /\ cpc = "call"
    /\ IF FitsOneChunk(text, chunkSize)
       THEN /\ chunks' = <<text>>
            /\ spans' = <<<<0, Len(text)>>>>
            /\ cpc' = "done"
            /\ chunkedData' = WithMetadata(chunks', FilenameToStore, text)
       ELSE /\ chunks' = <<>>
            /\ spans' = <<>>
            /\ cpc' = "loop"
            /\ chunkedData' = <<>>
    /\ start' = 0
    /\ windows' = <<>>
    /\ UNCHANGED <<text, chunkSize, overlap, origin>>
    /\ UNCHANGED offChunk

\* one iteration of while (start < text.length); after the last one
\* chunkText returns and chunkTextWithMetadata maps the chunks
ChunkTextIterate ==
    /\ cpc = "loop"
    /\ start < Len(text)
    /\ Len(windows) < MaxIterations
    /\ LET end == WindowEnd(text, start, chunkSize)
           kept == TrimmedRange(text, start, end)
           chunk == Substring(text, kept)
           next == NextStart(end, overlap)
       IN  /\ IF Len(chunk) > 0
              THEN /\ chunks' = Append(chunks, chunk)
                   /\ spans' = Append(spans, kept)
              ELSE UNCHANGED <<chunks, spans>>
           /\ windows' = Append(windows, <<start, end>>)
           /\ start' = next
           /\ cpc' = IF next >= Len(text) THEN "done" ELSE "loop"
           /\ chunkedData' = IF next >= Len(text)
                             THEN WithMetadata(chunks', FilenameToStore, text)
                             ELSE <<>>
    /\ UNCHANGED <<text, chunkSize, overlap, origin>>
    /\ UNCHANGED offChunk

\* a chunk the call returned is chunked again with the same parameters
ChunkAgain ==
    /\ cpc = "done"
    /\ origin = <<>>
    /\ \E i \in 1..Len(chunks) :
          /\ text' = chunks[i]
          /\ origin' = <<chunks[i]>>
    /\ cpc' = "call"
    /\ start' = 0
    /\ chunks' = <<>>
    /\ windows' = <<>>
    /\ spans' = <<>>
    /\ chunkedData' = <<>>
    /\ UNCHANGED <<chunkSize, overlap>>
    /\ UNCHANGED offChunk

\* ------------------------------------------------------------------------
\* The query pipeline: values
\* ------------------------------------------------------------------------

\* most matches the vector index returns in the model
MaxMatches == 2

\* the topK the /query route falls back to
RouteDefaultTopK == 8

\* the scoreThreshold the /query route falls back to (0.72)
RouteDefaultScoreThreshold == 7200

\* CONFIG.DEFAULT_SCORE_THRESHOLD (0.72)
ConfigScoreThreshold == 7200

\* the topK that runAgent hands to dbQueryTool
AgentTopK == 5

\* similarity scores the vector index reports
Scores == {6000, 7000, 7196, 7200, 7500, 8000, 8500}

\* the value of a missing property
Undefined == "undefined"

\* a query parameter that the request does not carry
Absent == "absent"

\* values of the mode, topK and scoreThreshold parameters of GET /query
ModeParams == {Absent, "db-only", "hybrid", "fast"}

TopKParams == {Absent, "0", "1", "2"}

ThresholdParams == {Absent, "0", "0.5", "0.75"}

\* a number, or Number.NaN
Number(n) == [nan |-> FALSE, value |-> n]

NaN == [nan |-> TRUE, value |-> 0]

\* parseInt of a query parameter
ParseInt(s) ==
    CASE s = "0" -> Number(0)
      [] s = "1" -> Number(1)
      [] s = "2" -> Number(2)
      [] OTHER -> NaN

\* parseFloat of a query parameter, in ten-thousandths
ParseFloat(s) ==
    CASE s = "0" -> Number(0)
      [] s = "0.5" -> Number(5000)
      [] s = "0.75" -> Number(7500)
      [] OTHER -> NaN

\* a || b for a parsed number a
NumberOr(a, b) == IF a.nan \/ a.value = 0 THEN b ELSE a.value

\* a || b for a string or undefined a
StringOr(a, b) == IF a = Absent \/ a = Undefined \/ a = "" THEN b ELSE a

\* Number.prototype.toString of a row id
IdToString(n) == <<"1", "2", "3", "4", "5", "6", "7", "8", "9">>[n]

RowIds == 1..MaxMatches

\* the filename column of the row with id n
FilenameOf(n) == <<"a.pdf", "b.pdf", "c.pdf", "d.pdf">>[n]

\* the row of table pdfs with id n
Row(n) == [id |-> n, filename |-> FilenameOf(n)]

\* the scores tried for the match at rank i: all of them for the first two
\* matches, two low ones for the matches after them
ScoresAt(i) == IF i <= 2 THEN Scores ELSE {6000, 7000}

\* what VECTORIZE.query can answer when asked for k neighbours: no matches,
\* or up to k matches with distinct ids, highest score first
IndexAnswers(k) ==
    {m \in UNION {[1..n -> [id : {IdToString(r) : r \in RowIds}, score : Scores]]
                    : n \in 0..Min2(k, MaxMatches)} :
        /\ \A i \in 1..Len(m) : m[i].score \in ScoresAt(i)
        /\ \A i, j \in 1..Len(m) : i < j => m[i].id # m[j].id
        /\ \A i, j \in 1..Len(m) : i < j => m[i].score >= m[j].score}

\* outcomes of the calls to the collaborators
EmbeddingOutcomes == {"ok", "error"}

WebOutcomes == {"exception", "notOk", "noItems", "items"}

WebFailures == {"exception", "notOk", "noCredentials"}

CompletionOutcomes ==
    {"exception", "notOk", "noCandidates", "noParts", "partWithoutText", "text"}

CompletionTexts == {"generated", "NOT_IN_DB"}

\* ------------------------------------------------------------------------
\* The query pipeline: functions
\* ------------------------------------------------------------------------

\* the fetched rows in the order of the store, lowest id first, each with
\* the score of the match that has its id
HydrateInStoreOrder(vm, rows) ==
    LET hit == {r \in rows : \E i \in 1..Len(vm) : vm[i].id = IdToString(r.id)}
        n == Cardinality(hit)
        byId == CHOOSE f \in [1..n -> hit] :
                    \A i, j \in 1..n : i < j => f[i].id < f[j].id
    IN  [i \in 1..n |->
            LET k == CHOOSE j \in 1..Len(vm) : vm[j].id = IdToString(byId[i].id)
            IN  [id |-> byId[i].id, source |-> byId[i].filename,
                 score |-> vm[k].score]]

\* a loop that ends at the first match without a fetched row
RECURSIVE HydrateUntilMissing(_, _)
HydrateUntilMissing(vm, rows) ==
    IF vm = <<>> THEN <<>>
    ELSE LET match == Head(vm)
             found == {r \in rows : IdToString(r.id) = match.id}
         IN  IF found = {} THEN <<>>
             ELSE LET doc == CHOOSE r \in found : TRUE
                  IN  <<[id |-> doc.id, source |-> doc.filename,
                         score |-> match.score]>>
                      \o HydrateUntilMissing(Tail(vm), rows)

\* retrieveDocs after the store has answered: each match of the index whose
\* id is the id of a fetched row, in the order of the index
RECURSIVE Hydrate(_, _)
Hydrate(vm, rows) ==
    IF vm = <<>> THEN <<>>
    ELSE LET match == Head(vm)
             found == {r \in rows : IdToString(r.id) = match.id}
         IN  IF found = {} THEN Hydrate(Tail(vm), rows)
             ELSE LET doc == CHOOSE r \in found : TRUE
                  IN  <<[id |-> doc.id, source |-> doc.filename,
                         score |-> match.score]>>
                      \o Hydrate(Tail(vm), rows)

\* a provenance list that names the top match only
ProvenanceOfTopMatch(ms) ==
    [i \in 1..Min2(1, Len(ms)) |->
        [id |-> ms[i].id, score |-> ms[i].score, source |-> ms[i].source]]

\* the provenance list of buildContextSnippet
Provenance(ms) ==
    [i \in 1..Len(ms) |->
        [id |-> ms[i].id, score |-> ms[i].score, source |-> ms[i].source]]

\* String.prototype.trim
Trim(str) == Substring(str, TrimmedRange(str, 0, Len(str)))

\* CONFIG.MAX_CONTEXT_CHARS
MaxContextChars == 1500

\* the marker appended to a truncated text: a space and the one character
\* U+2026, written here as the element "ellipsis"
EllipsisMarker == <<" ", "ellipsis">>

\* the truncation with >= in place of >
SnippetTextCutAtLimit(pageContent, limit) ==
    LET trimmed == Trim(pageContent)
    IN  IF Len(trimmed) >= limit
        THEN SubSeq(trimmed, 1, limit) \o EllipsisMarker
        ELSE trimmed

\* buildContextSnippet: the text of one block, from doc.page_content
SnippetText(pageContent, limit) ==
    LET trimmed == Trim(pageContent)
    IN  IF Len(trimmed) > limit
        THEN SubSeq(trimmed, 1, limit) \o EllipsisMarker
        ELSE trimmed

\* buildContextSnippet: one part per match, in order: the header line with
\* the ordinal, the id and the score to four decimals (scores are in
\* ten-thousandths here, so toFixed(4) shows all of a score), then the text
BuildContextSnippet(ms, limit) ==
    [parts |-> [i \in 1..Len(ms) |->
                   [doc |-> i, id |-> ms[i].id, score |-> ms[i].score,
                    text |-> SnippetText(ms[i].page_content, limit)]],
     provenance |-> Provenance(ms)]

\* Math.round(score * 1000) / 1000
RoundToThousandths(score) == ((score + 5) \div 10) * 10

\* dbQueryTool: the formatted results, and [] when retrieveDocs threw
DbQueryTool(retr) ==
    IF retr.threw THEN <<>>
    ELSE [i \in 1..Len(retr.matches) |->
            [doc_id |-> retr.matches[i].id,
             score |-> RoundToThousandths(retr.matches[i].score),
             source |-> StringOr(retr.matches[i].source, "unknown")]]

\* googleSearchTool with a catch block that throws the error again
GoogleSearchToolRethrows(configured, outcome) ==
    IF configured /\ outcome = "items"
    THEN [threw |-> FALSE, results |-> <<"item">>]
    ELSE IF configured /\ outcome = "noItems"
    THEN [threw |-> FALSE, results |-> <<>>]
    ELSE [threw |-> TRUE, results |-> <<>>]

\* googleSearchTool: its result for an outcome of the search request
GoogleSearchTool(configured, outcome) ==
    IF ~configured THEN [threw |-> FALSE, results |-> <<>>]
    ELSE IF outcome = "items" THEN [threw |-> FALSE, results |-> <<"item">>]
    ELSE [threw |-> FALSE, results |-> <<>>]

\* callGeminiWithContext: its result for an outcome of the completion request
CallGeminiWithContext(outcome, generated) ==
    CASE outcome \in {"exception", "notOk", "noCandidates", "noParts"} ->
            [threw |-> TRUE, text |-> Undefined]
      [] outcome = "partWithoutText" -> [threw |-> FALSE, text |-> Undefined]
      [] OTHER -> [threw |-> FALSE, text |-> generated]

\* the threshold test with <= in place of <
DbOnlyBelowOrAtThreshold(topScore, threshold) == topScore <= threshold

\* answerQuery, db-only: topScore < scoreThreshold
DbOnlyBelowThreshold(topScore, threshold) == topScore < threshold

\* runAgent, hybrid: the database results are insufficient
HybridNeedsWeb(found) ==
    Len(found) = 0 \/ found[1].score < ConfigScoreThreshold

\* answerQuery with a final else that falls back to the db-only branch
ModeBranchWithDefault(mode) ==
    IF mode = "hybrid" THEN "hybrid" ELSE "db-only"

\* the branch answerQuery takes for a mode
ModeBranch(mode) ==
    IF mode = "db-only" THEN "db-only"
    ELSE IF mode = "hybrid" THEN "hybrid"
    ELSE "invalid"

\* the topK that reaches VECTORIZE.query
RequestedTopK(mode, topK) == IF mode = "hybrid" THEN AgentTopK ELSE topK

NoResult ==
    [kind |-> "pending", answer |-> Undefined, hasProvenance |-> FALSE,
     provenance |-> <<>>, error |-> ""]

Thrown(message) ==
    [kind |-> "thrown", answer |-> Undefined, hasProvenance |-> FALSE,
     provenance |-> <<>>, error |-> message]

\* { answer, provenance } and { answer, provenance, raw }
Returned(answer, provenance) ==
    [kind |-> "returned", answer |-> answer, hasProvenance |-> TRUE,
     provenance |-> provenance, error |-> ""]

\* { answer }, the result of the hybrid branch
ReturnedAnswerOnly(answer) ==
    [kind |-> "returned", answer |-> answer, hasProvenance |-> FALSE,
     provenance |-> <<>>, error |-> ""]

\* the relevance classes with >= in place of >
RelevanceFromBound(score) ==
    IF score >= 8000 THEN "High" ELSE IF score >= 6000 THEN "Medium" ELSE "Low"

\* source.score > 0.8 ? "High" : source.score > 0.6 ? "Medium" : "Low"
Relevance(score) ==
    IF score > 8000 THEN "High" ELSE IF score > 6000 THEN "Medium" ELSE "Low"

\* result.provenance.map(...), the sourceDetails of the response
SourceDetails(provenance) ==
    [i \in 1..Len(provenance) |->
        [docId |-> provenance[i].id, source |-> provenance[i].source,
         score |-> provenance[i].score,
         relevance |-> Relevance(provenance[i].score)]]

\* the response of GET /query for a result of answerQuery; sourceDetails is
\* a property of the body only when hasSourceDetails
RouteResponse(res, mode) ==
    IF res.kind = "thrown"
    THEN [status |-> 500, error |-> "Failed to process query",
          message |-> res.error]
    ELSE LET detailed == res.hasProvenance /\ Len(res.provenance) > 0
         IN  [status |-> 200, answer |-> res.answer,
              sources |-> IF res.hasProvenance THEN res.provenance ELSE <<>>,
              mode |-> mode,
              hasSourceDetails |-> detailed,
              sourceDetails |-> IF detailed THEN SourceDetails(res.provenance)
                                ELSE <<>>]

NoResponse == [status |-> 0]

\* ------------------------------------------------------------------------
\* The query pipeline: one GET /query request
\* ------------------------------------------------------------------------

\* let context = "": no block yet
NoContext == <<>>

\* the titles of the blocks of the hybrid context
DatabaseBlock == "Database Results"

WebBlock == "Web Search Results"

\* the context with the "Database Results" block added when dbResults is
\* not empty
WithDatabaseBlock(ctx, found) ==
    IF Len(found) > 0 THEN Append(ctx, DatabaseBlock) ELSE ctx

\* the web block added whether or not the search returned results
WithWebBlockAlways(ctx, webResults) == Append(ctx, WebBlock)

\* the context with the "Web Search Results" block added when webResults is
\* not empty
WithWebBlock(ctx, webResults) ==
    IF Len(webResults) > 0 THEN Append(ctx, WebBlock) ELSE ctx

\* the db-only context: one "--- DOC i ---" block per match
DocBlocks(ms) == [i \in 1..Len(ms) |-> "DOC"]

\* the context has a block with this title
HasBlock(ctx, title) == \E i \in 1..Len(ctx) : ctx[i] = title

NoRetrieval == [threw |-> FALSE, matches |-> <<>>]

RetrievalThrew == [threw |-> TRUE, matches |-> <<>>]

NoCompletion == [outcome |-> "none", text |-> Undefined]

QueryInit ==
    /\ qpc = "idle"
    /\ params = [mode |-> Absent, topK |-> Absent, scoreThreshold |-> Absent]
    /\ qmode = Undefined
    /\ qtopK = 0
    /\ qthreshold = 0
    /\ searchConfigured \in BOOLEAN
    /\ kRequested = 0
    /\ vmatches = <<>>
    /\ qrows = {}
    /\ retrieval = NoRetrieval
    /\ retrievalFailure = "none"
    /\ dbResults = <<>>
    /\ webInvoked = FALSE
    /\ webOutcome = "none"
    /\ context = NoContext
    /\ sysPrompt = "none"
    /\ completion = NoCompletion
    /\ calls = <<>>
    /\ result = NoResult
    /\ response = NoResponse

\* runAgent once googleSearchTool has returned: the context and the call of
\* the completion
AfterWebSearch(tool, ctx) ==
    IF tool.threw
    THEN [next |-> "done", result |-> Thrown("web search"),
          context |-> ctx, sysPrompt |-> "none"]
    ELSE [next |-> "completion", result |-> NoResult,
          context |-> WithWebBlock(ctx, tool.results),
          sysPrompt |-> "HYBRID"]

\* answerQuery and runAgent once retrieveDocs has ended, up to the next
\* request to a collaborator or to the end of answerQuery
AfterRetrieval(mode, threshold, configured, retr) ==
    LET base == [next |-> "done", result |-> NoResult, dbResults |-> <<>>,
                 webInvoked |-> FALSE, webOutcome |-> "none",
                 context |-> NoContext, sysPrompt |-> "none"]
    IN  IF ModeBranch(mode) = "db-only"
        THEN IF retr.threw
             THEN [base EXCEPT !.result = Thrown("retrieval")]
             ELSE IF Len(retr.matches) = 0
             THEN [base EXCEPT !.result = Returned("NOT_IN_DB", <<>>)]
             ELSE IF DbOnlyBelowThreshold(retr.matches[1].score, threshold)
             THEN [base EXCEPT !.result =
                       Returned("NOT_IN_DB", Provenance(retr.matches))]
             ELSE [base EXCEPT !.next = "completion",
                               !.context = DocBlocks(retr.matches),
                               !.sysPrompt = "DB_ONLY"]
        ELSE LET found == DbQueryTool(retr)
                 withDb == WithDatabaseBlock(NoContext, found)
             IN  IF HybridNeedsWeb(found)
                 THEN IF configured
                      THEN [base EXCEPT !.next = "webSearch",
                                        !.dbResults = found,
                                        !.webInvoked = TRUE,
                                        !.context = withDb]
                      ELSE LET after == AfterWebSearch(
                                   GoogleSearchTool(FALSE, "noCredentials"),
                                   withDb)
                           IN  [base EXCEPT !.next = after.next,
                                            !.result = after.result,
                                            !.dbResults = found,
                                            !.webInvoked = TRUE,
                                            !.webOutcome = "noCredentials",
                                            !.context = after.context,
                                            !.sysPrompt = after.sysPrompt]
                 ELSE [base EXCEPT !.next = "completion",
                                   !.dbResults = found,
                                   !.context = withDb,
                                   !.sysPrompt = "HYBRID"]

\* a request that is sent a second time
CallsWithRepeat(next) ==
    IF next \in {"webSearch", "completion"}
    THEN Append(Append(calls, next), next)
    ELSE calls

\* the requests made so far, with the one that next starts
CallsWith(next) ==
    IF next \in {"webSearch", "completion"} THEN Append(calls, next) ELSE calls

\* the response, once answerQuery has ended
ResponseAt(next, res) ==
    IF next = "done" THEN RouteResponse(res, qmode) ELSE response

\* retrieveDocs has ended with retr
ContinueAfterRetrieval(retr) ==
    LET d == AfterRetrieval(qmode, qthreshold, searchConfigured, retr)
    IN  /\ retrieval' = retr
        /\ qpc' = d.next
        /\ result' = d.result
        /\ response' = ResponseAt(d.next, d.result)
        /\ dbResults' = d.dbResults
        /\ webInvoked' = d.webInvoked
        /\ webOutcome' = d.webOutcome
        /\ context' = d.context
        /\ sysPrompt' = d.sysPrompt
        /\ calls' = CallsWith(d.next)

\* GET /query up to the first request of answerQuery
QueryRoute ==
    /\ qpc = "idle"
    /\ \E mp \in ModeParams, kp \in TopKParams, tp \in ThresholdParams :
          LET mode == StringOr(mp, "hybrid")
              topK == NumberOr(ParseInt(kp), RouteDefaultTopK)
              scoreThreshold ==
                  NumberOr(ParseFloat(tp), RouteDefaultScoreThreshold)
          IN  /\ params' = [mode |-> mp, topK |-> kp, scoreThreshold |-> tp]
              /\ qmode' = mode
              /\ qtopK' = topK
              /\ qthreshold' = scoreThreshold
              /\ IF ModeBranch(mode) = "invalid"
                 THEN /\ qpc' = "done"
                      /\ result' = Thrown("mode must be 'db-only' or 'hybrid'")
                      /\ response' = RouteResponse(result', mode)
                      /\ calls' = <<>>
                      /\ kRequested' = 0
                 ELSE /\ qpc' = "embedding"
                      /\ calls' = <<"embedding">>
                      /\ kRequested' = RequestedTopK(mode, topK)
                      /\ UNCHANGED <<result, response>>
    /\ UNCHANGED <<searchConfigured, vmatches, retrieval, retrievalFailure,
                   dbResults, webInvoked, webOutcome, context, sysPrompt,
                   completion>>
    /\ UNCHANGED qrows
    /\ UNCHANGED offQuery

\* generateEmbeddings returns or throws
EmbeddingReturns ==
    /\ qpc = "embedding"
    /\ \E outcome \in EmbeddingOutcomes :
          IF outcome = "ok"
          THEN /\ qpc' = "vectorQuery"
               /\ calls' = Append(calls, "vectorQuery")
               /\ UNCHANGED <<retrieval, retrievalFailure, result, response,
                              dbResults, webInvoked, webOutcome, context,
                              sysPrompt>>
          ELSE /\ retrievalFailure' = "embedding"
               /\ ContinueAfterRetrieval(RetrievalThrew)
    /\ UNCHANGED <<params, qmode, qtopK, qthreshold, searchConfigured,
                   kRequested, vmatches, completion>>
    /\ UNCHANGED qrows
    /\ UNCHANGED offQuery

\* env.VECTORIZE.query throws
VectorQueryFails ==
    /\ qpc = "vectorQuery"
    /\ retrievalFailure' = "vectorQuery"
    /\ ContinueAfterRetrieval(RetrievalThrew)
    /\ UNCHANGED <<params, qmode, qtopK, qthreshold, searchConfigured,
                   kRequested, vmatches, completion>>
    /\ UNCHANGED qrows
    /\ UNCHANGED offQuery

\* env.VECTORIZE.query returns
VectorQueryReturns ==
    /\ qpc = "vectorQuery"
    /\ \E m \in IndexAnswers(kRequested) :
          /\ vmatches' = m
          /\ IF Len(m) = 0
             THEN ContinueAfterRetrieval(NoRetrieval)
             ELSE /\ qpc' = "storeFetch"
                  /\ calls' = Append(calls, "storeFetch")
                  /\ UNCHANGED <<retrieval, result, response, dbResults,
                                 webInvoked, webOutcome, context, sysPrompt>>
    /\ UNCHANGED <<params, qmode, qtopK, qthreshold, searchConfigured,
                   kRequested, retrievalFailure, completion>>
    /\ UNCHANGED qrows
    /\ UNCHANGED offQuery

\* the SELECT on table pdfs throws
StoreFetchFails ==
    /\ qpc = "storeFetch"
    /\ retrievalFailure' = "storeFetch"
    /\ ContinueAfterRetrieval(RetrievalThrew)
    /\ UNCHANGED <<params, qmode, qtopK, qthreshold, searchConfigured,
                   kRequested, vmatches, completion>>
    /\ UNCHANGED qrows
    /\ UNCHANGED offQuery

\* the SELECT on table pdfs answers without results
StoreFetchReturnsNothing ==
    /\ qpc = "storeFetch"
    /\ ContinueAfterRetrieval(NoRetrieval)
    /\ UNCHANGED <<params, qmode, qtopK, qthreshold, searchConfigured,
                   kRequested, vmatches, retrievalFailure, completion>>
    /\ UNCHANGED qrows
    /\ UNCHANGED offQuery

\* the SELECT on table pdfs returns the rows it has among the requested ids
StoreFetchReturns ==
    /\ qpc = "storeFetch"
    /\ \E ids \in SUBSET {n \in RowIds :
                            \E i \in 1..Len(vmatches) :
                                vmatches[i].id = IdToString(n)} :
          /\ qrows' = {Row(n) : n \in ids}
          /\ ContinueAfterRetrieval(
                 [threw |-> FALSE, matches |-> Hydrate(vmatches, qrows')])
    /\ UNCHANGED <<params, qmode, qtopK, qthreshold, searchConfigured,
                   kRequested, vmatches, retrievalFailure, completion>>
    /\ UNCHANGED offQuery

\* the request of googleSearchTool ends
WebSearchReturns ==
    /\ qpc = "webSearch"
    /\ \E outcome \in WebOutcomes :
          LET d == AfterWebSearch(GoogleSearchTool(TRUE, outcome), context)
          IN  /\ webOutcome' = outcome
              /\ qpc' = d.next
              /\ result' = d.result
              /\ response' = ResponseAt(d.next, d.result)
              /\ context' = d.context
              /\ sysPrompt' = d.sysPrompt
              /\ calls' = CallsWith(d.next)
    /\ UNCHANGED <<params, qmode, qtopK, qthreshold, searchConfigured,
                   kRequested, vmatches, retrieval, retrievalFailure,
                   dbResults, webInvoked, completion>>
    /\ UNCHANGED qrows
    /\ UNCHANGED offQuery

\* the request of callGeminiWithContext ends
CompletionReturns ==
    /\ qpc = "completion"
    /\ \E outcome \in CompletionOutcomes, generated \in CompletionTexts :
          /\ (outcome # "text" => generated = "generated")
          /\ LET r == CallGeminiWithContext(outcome, generated)
                 res == IF r.threw THEN Thrown("completion")
                        ELSE IF ModeBranch(qmode) = "db-only"
                        THEN Returned(r.text, Provenance(retrieval.matches))
                        ELSE ReturnedAnswerOnly(r.text)
             IN  /\ completion' = [outcome |-> outcome, text |-> r.text]
                 /\ result' = res
                 /\ response' = RouteResponse(res, qmode)
    /\ qpc' = "done"
    /\ UNCHANGED <<params, qmode, qtopK, qthreshold, searchConfigured,
                   kRequested, vmatches, retrieval, retrievalFailure,
                   dbResults, webInvoked, webOutcome, context, sysPrompt,
                   calls>>
    /\ UNCHANGED qrows
    /\ UNCHANGED offQuery

\* ------------------------------------------------------------------------
\* buildContextSnippet, called on its own
\* ------------------------------------------------------------------------

\* longest page_content of a match
MaxPageLen == 4

\* largest includeLimitChars tried beside the default
MaxLimitChars == 2

PageContents == {t \in Texts : Len(t) <= MaxPageLen}

\* longest page_content of the matches after the first
MaxLaterPageLen == 2

\* the contents tried at position i of the list
PageContentsAt(i) ==
    IF i = 1 THEN PageContents
    ELSE {t \in Texts : Len(t) <= MaxLaterPageLen}

LimitChars == 1..MaxLimitChars \cup {MaxContextChars}

\* the scores of the matches handed over, highest first
SnippetScores == <<7500, 7000>>

\* lists of up to two matches as retrieveDocs builds them
SnippetMatches ==
    {[i \in 1..n |-> [id |-> Row(i).id, source |-> Row(i).filename,
                      score |-> SnippetScores[i], page_content |-> pc[i]]] :
        n \in 0..Len(SnippetScores),
        pc \in {f \in [1..Len(SnippetScores) -> PageContents] :
                   \A i \in 1..Len(SnippetScores) : f[i] \in PageContentsAt(i)}}

SnippetInit ==
    /\ bpc = "call"
    /\ bmatches \in SnippetMatches
    /\ includeLimitChars \in LimitChars
    /\ parts = <<>>
    /\ bprovenance = <<>>

\* buildContextSnippet(matches, includeLimitChars)
BuildContextSnippetCall ==
    /\ bpc = "call"
    /\ LET built == BuildContextSnippet(bmatches, includeLimitChars)
       IN  /\ parts' = built.parts
           /\ bprovenance' = built.provenance
    /\ bpc' = "done"
    /\ UNCHANGED <<bmatches, includeLimitChars>>
    /\ UNCHANGED offSnippet

\* no call of buildContextSnippet is under way
SnippetIdle ==
    /\ bpc = "done"
    /\ bmatches = <<>>
    /\ includeLimitChars = MaxContextChars
    /\ parts = <<>>
    /\ bprovenance = <<>>

\* ------------------------------------------------------------------------
\* Ingestion: values and functions
\* ------------------------------------------------------------------------

\* most chunks of one document
MaxChunks == 2

\* a count, an id or a vector that is undefined
Missing == -1

\* src/src/index.js sends a PDF to the EC2 processing API first; part_004
\* hands every request to the workflow, which chunks the text itself
Workers == {"src/index.js", "part_004"}

\* values of the fields of the request body; pdfUrl is the URL of a PMC
\* viewer page with a PMC id, for which getActualPdfUrl has a direct URL to
\* probe, or another URL
BodyTexts == {Absent, "", "note"}

BodyFilenames == {Absent, "f.pdf"}

BodyPdfUrls == {Absent, "pmc viewer", "other"}

NoBody == [text |-> Absent, filename |-> Absent, pdfUrl |-> Absent]

\* a value that counts as true in an if, a ! or a ||
Truthy(v) == v \notin {Absent, Undefined, ""}

\* the validation without the test of the filename
IngestRejectionOfEmptyOnly(body) ==
    IF ~Truthy(body.text) /\ ~Truthy(body.pdfUrl)
    THEN "Missing text or pdfUrl"
    ELSE "none"

\* the validation of POST /ingest: the text of the 400 response, or "none"
IngestRejection(body) ==
    IF ~Truthy(body.text) /\ ~Truthy(body.pdfUrl)
    THEN "Missing text or pdfUrl"
    ELSE IF Truthy(body.pdfUrl) /\ ~Truthy(body.filename)
    THEN "Missing filename for PDF"
    ELSE "none"

\* c.text(body, status)
TextResponse(status, body) == [status |-> status, json |-> FALSE, body |-> body]

\* c.json({ message, ... }, status)
JsonResponse(status, message) ==
    [status |-> status, json |-> TRUE, body |-> message]

NoIngestResponse == [status |-> 0, json |-> FALSE, body |-> <<>>]

\* app.onError: c.text(err), sent with the default status 200
OnError == TextResponse(200, <<"Error">>)

\* pdfUrl ? `Created PDF note: ${filename}` : "Created note"
CreatedMessage(body) ==
    IF Truthy(body.pdfUrl) THEN <<"Created PDF note: ", body.filename>>
    ELSE <<"Created note">>

\* what the EC2 processing API can answer with an OK status: a body with or
\* without a chunks array and an embeddings array, each of some length
Ec2Bodies == [chunks : Missing..MaxChunks, embeddings : Missing..MaxChunks]

NoEc2Data == [chunks |-> Missing, embeddings |-> Missing]

Ec2Outcomes == {"exception", "notOk", "data"}

\* params: { text, filename, pdfUrl }
LocalParams(body) ==
    [text |-> body.text, filename |-> body.filename, pdfUrl |-> body.pdfUrl,
     chunks |-> Missing, embeddings |-> Missing]

\* params: { chunks, embeddings, filename, pdfUrl, summary }
Ec2Params(body, data) ==
    [text |-> Undefined, filename |-> body.filename, pdfUrl |-> body.pdfUrl,
     chunks |-> data.chunks, embeddings |-> data.embeddings]

NoPayload ==
    [text |-> Absent, filename |-> Absent, pdfUrl |-> Absent,
     chunks |-> Missing, embeddings |-> Missing]

\* POST /ingest once RAG_WORKFLOW.create has returned (ok) or thrown: the
\* response, or the create call of the catch block
AfterCreate(site, ok, body, data) ==
    IF site = "ec2"
    THEN IF ok /\ data.chunks # Missing
         THEN [next |-> "done", site |-> "none",
               response |-> JsonResponse(201, <<"Processed PDF: ", body.filename>>)]
         ELSE [next |-> "create", site |-> "fallback",
               response |-> NoIngestResponse]
    ELSE IF ~ok
    THEN [next |-> "done", site |-> "none", response |-> OnError]
    ELSE IF site = "fallback"
    THEN [next |-> "done", site |-> "none",
          response |-> TextResponse(201, <<"Created PDF note (fallback): ",
                                          body.filename>>)]
    ELSE [next |-> "done", site |-> "none",
          response |-> TextResponse(201, CreatedMessage(body))]

\* if (chunks && embeddings): the run uses the data of the payload
UsesEc2Data(w, p) ==
    w = "src/index.js" /\ p.chunks # Missing /\ p.embeddings # Missing

\* getActualPdfUrl has a direct URL to probe for this viewer URL
HasDirectUrl(url) == url = "pmc viewer"

\* outcomes of the calls of a run
FetchOutcomes == {"exception", "notOk", "html", "pdf"}

ProbeOutcomes == {"exception", "other", "pdf"}

AltFetchOutcomes == {"exception", "notOk", "ok"}

ToMarkdownOutcomes == {"exception", "noText", "text"}

InsertOutcomes == {"exception", "noRecord", "record"}

EmbedOutcomes == {"exception", "none", "vector"}

UpsertOutcomes == {"exception", "ok"}

\* what extractTextFromPDFBuffer and extractTextFromHtmlContent return:
\* text they found, or a diagnostic placeholder
CustomExtractions == {"custom", "placeholder"}

HtmlExtractions == {"html", "htmlPlaceholder"}

\* how many chunks a local run gets from its text: src/index.js makes one
\* chunk of it; part_004 gets what chunkTextWithMetadata returns, which is
\* nothing only for a request text of whitespace
ChunkCounts(w, kind) ==
    IF w = "src/index.js" THEN {1}
    ELSE IF kind = "text" THEN 0..MaxChunks
    ELSE 1..MaxChunks

\* the embedding test that lets a missing vector pass
EmbeddingFailsOnException(outcome) == outcome = "exception"

\* embedQuery throws, or if (!values) throw
EmbeddingFails(outcome) == outcome \in {"exception", "none"}

\* the insert throws, or if (!record) throw
InsertFails(outcome) == outcome \in {"exception", "noRecord"}

\* the batch with the position of a vector as its id
UpsertBatchByPosition(w, recs, vecs) ==
    [i \in 1..Len(vecs) |-> [id |-> IdToString(i), values |-> vecs[i]]]

\* the batch handed to VECTORIZE.upsert: src/index.js maps the records to
\* { id, values: finalEmbeddings[index] }, part_004 maps the embeddings,
\* each made with the id of the record of its chunk
UpsertBatch(w, recs, vecs) ==
    IF w = "src/index.js"
    THEN [i \in 1..Len(recs) |->
             [id |-> IdToString(recs[i]),
              values |-> IF i <= Len(vecs) THEN vecs[i] ELSE Missing]]
    ELSE [i \in 1..Len(vecs) |->
             [id |-> IdToString(recs[i]), values |-> vecs[i]]]

\* ------------------------------------------------------------------------
\* Ingestion: one POST /ingest request and the runs of its instances
\* ------------------------------------------------------------------------

\* the variables of the route and those of the run
routeVars == <<ipc, ibody, createSite, ec2Data, iresponse, instances, icalls>>

runVars == <<started, wpc, payload, wchunks, records, wvectors, store, index,
             extracted, fetchedOk, wlog>>

IngestInit ==
    /\ worker \in Workers
    /\ ipc = "idle"
    /\ ibody = NoBody
    /\ createSite = "none"
    /\ ec2Data = NoEc2Data
    /\ iresponse = NoIngestResponse
    /\ instances = <<>>
    /\ icalls = <<>>
    /\ started = 0
    /\ wpc = "none"
    /\ payload = NoPayload
    /\ wchunks = <<>>
    /\ records = <<>>
    /\ wvectors = <<>>
    /\ store = <<>>
    /\ index = <<>>
    /\ extracted = "none"
    /\ fetchedOk = FALSE
    /\ wlog = <<>>

\* POST /ingest up to its first call: the validation, then the request to
\* the EC2 processing API for a PDF in src/index.js, else RAG_WORKFLOW.create
IngestRoute ==
    /\ ipc = "idle"
    /\ \E t \in BodyTexts, f \in BodyFilenames, u \in BodyPdfUrls :
          LET body == [text |-> t, filename |-> f, pdfUrl |-> u]
              rejection == IngestRejection(body)
          IN  /\ ibody' = body
              /\ IF rejection # "none"
                 THEN /\ iresponse' = TextResponse(400, <<rejection>>)
                      /\ ipc' = "done"
                      /\ createSite' = "none"
                      /\ icalls' = <<>>
                 ELSE IF worker = "src/index.js" /\ Truthy(u)
                 THEN /\ ipc' = "ec2"
                      /\ createSite' = "none"
                      /\ icalls' = <<"ec2">>
                      /\ UNCHANGED iresponse
                 ELSE /\ ipc' = "create"
                      /\ createSite' = "plain"
                      /\ icalls' = <<"create">>
                      /\ UNCHANGED iresponse
    /\ UNCHANGED <<worker, ec2Data, instances>>
    /\ UNCHANGED runVars
    /\ UNCHANGED offIngest

\* the request to the EC2 processing API ends: with data the route creates
\* the instance from it; an exception, a body that is not JSON or a status
\* that is not OK leads to the catch block
Ec2Returns ==
    /\ ipc = "ec2"
    /\ \E outcome \in Ec2Outcomes, data \in Ec2Bodies :
          /\ outcome # "data" => data = NoEc2Data
          /\ ec2Data' = data
          /\ createSite' = IF outcome = "data" THEN "ec2" ELSE "fallback"
    /\ ipc' = "create"
    /\ icalls' = Append(icalls, "create")
    /\ UNCHANGED <<worker, ibody, iresponse, instances>>
    /\ UNCHANGED runVars
    /\ UNCHANGED offIngest

\* RAG_WORKFLOW.create returns or throws
WorkflowCreateReturns ==
    /\ ipc = "create"
    /\ \E ok \in BOOLEAN :
          LET made == IF createSite = "ec2" THEN Ec2Params(ibody, ec2Data)
                      ELSE LocalParams(ibody)
              d == AfterCreate(createSite, ok, ibody, ec2Data)
          IN  /\ instances' = IF ok THEN Append(instances, made)
                              ELSE instances
              /\ ipc' = d.next
              /\ createSite' = d.site
              /\ iresponse' = d.response
              /\ icalls' = IF d.next = "create" THEN Append(icalls, "create")
                           ELSE icalls
    /\ UNCHANGED <<worker, ibody, ec2Data>>
    /\ UNCHANGED runVars
    /\ UNCHANGED offIngest

\* the first step of the run has its text or its chunks: the chunks of the
\* run, by number, and the first insert
ExtractionEnds(kind, counts) ==
    /\ extracted' = kind
    /\ \E n \in counts :
          /\ wchunks' = [i \in 1..n |-> i]
          /\ wpc' = IF n > 0 THEN "insert" ELSE "upsert"

\* the first step of the run throws
ExtractionFails ==
    /\ wpc' = "errored"
    /\ UNCHANGED <<extracted, wchunks>>

\* the text of the run comes from the HTML page that was fetched
HtmlExtractionEnds ==
    \E kind \in HtmlExtractions :
        ExtractionEnds(kind, ChunkCounts(worker, kind))

\* the runtime starts the run of the next instance, up to its first call
RunStart ==
    /\ started < Len(instances)
    /\ wpc \in {"none", "complete", "errored"}
    /\ LET p == instances[started + 1]
       IN  /\ payload' = p
           /\ IF UsesEc2Data(worker, p)
              THEN /\ ExtractionEnds("ec2", {p.chunks})
                   /\ wvectors' = [i \in 1..p.embeddings |-> i]
              ELSE /\ wvectors' = <<>>
                   /\ IF Truthy(p.pdfUrl)
                      THEN /\ wpc' = "fetch"
                           /\ extracted' = "none"
                           /\ wchunks' = <<>>
                      ELSE ExtractionEnds("text", ChunkCounts(worker, "text"))
    /\ started' = started + 1
    /\ records' = <<>>
    /\ fetchedOk' = FALSE
    /\ wlog' = <<>>
    /\ UNCHANGED <<store, index>>
    /\ UNCHANGED <<worker, routeVars>>
    /\ UNCHANGED offIngest

\* fetch(pdfUrl) ends
FetchReturns ==
    /\ wpc = "fetch"
    /\ \E outcome \in FetchOutcomes :
          /\ wlog' = Append(wlog, <<"fetch", outcome>>)
          /\ fetchedOk' = (outcome \in {"html", "pdf"})
          /\ IF outcome \in {"exception", "notOk"}
             THEN ExtractionFails
             ELSE IF outcome = "pdf"
             THEN /\ wpc' = "toMarkdown"
                  /\ UNCHANGED <<extracted, wchunks>>
             ELSE IF HasDirectUrl(payload.pdfUrl)
             THEN /\ wpc' = "probe"
                  /\ UNCHANGED <<extracted, wchunks>>
             ELSE HtmlExtractionEnds
    /\ UNCHANGED <<started, payload, records, wvectors, store, index>>
    /\ UNCHANGED <<worker, routeVars>>
    /\ UNCHANGED offIngest

\* getActualPdfUrl: the HEAD request to the direct URL ends
ProbeReturns ==
    /\ wpc = "probe"
    /\ \E outcome \in ProbeOutcomes :
          /\ wlog' = Append(wlog, <<"probe", outcome>>)
          /\ IF outcome = "pdf"
             THEN /\ wpc' = "altFetch"
                  /\ UNCHANGED <<extracted, wchunks>>
             ELSE HtmlExtractionEnds
    /\ UNCHANGED <<started, payload, records, wvectors, store, index,
                   fetchedOk>>
    /\ UNCHANGED <<worker, routeVars>>
    /\ UNCHANGED offIngest

\* fetch(actualPdfUrl) ends
AltFetchReturns ==
    /\ wpc = "altFetch"
    /\ \E outcome \in AltFetchOutcomes :
          /\ wlog' = Append(wlog, <<"altFetch", outcome>>)
          /\ IF outcome = "exception"
             THEN ExtractionFails
             ELSE IF outcome = "ok"
             THEN /\ wpc' = "toMarkdown"
                  /\ UNCHANGED <<extracted, wchunks>>
             ELSE HtmlExtractionEnds
    /\ UNCHANGED <<started, payload, records, wvectors, store, index,
                   fetchedOk>>
    /\ UNCHANGED <<worker, routeVars>>
    /\ UNCHANGED offIngest

\* extractTextWithCloudflareAI: env.AI.toMarkdown ends; without text from it
\* extractTextFromPDFBuffer reads the bytes
ToMarkdownReturns ==
    /\ wpc = "toMarkdown"
    /\ \E outcome \in ToMarkdownOutcomes :
          /\ wlog' = Append(wlog, <<"toMarkdown", outcome>>)
          /\ IF outcome = "text"
             THEN ExtractionEnds("ai", ChunkCounts(worker, "ai"))
             ELSE \E kind \in CustomExtractions :
                      ExtractionEnds(kind, ChunkCounts(worker, kind))
    /\ UNCHANGED <<started, payload, records, wvectors, store, index,
                   fetchedOk>>
    /\ UNCHANGED <<worker, routeVars>>
    /\ UNCHANGED offIngest

\* the INSERT of the next chunk ends; after the last one the embeddings
\* step returns those of the payload or calls embedQuery for the first chunk
InsertReturns ==
    /\ wpc = "insert"
    /\ \E outcome \in InsertOutcomes :
          /\ wlog' = Append(wlog, <<"insert", outcome>>)
          /\ IF InsertFails(outcome)
             THEN /\ wpc' = "errored"
                  /\ UNCHANGED <<records, store>>
             ELSE LET id == Len(store) + 1
                      chunk == wchunks[Len(records) + 1]
                  IN  /\ store' = Append(store, [id |-> id, run |-> started,
                                                chunk |-> chunk])
                      /\ records' = Append(records, id)
                      /\ wpc' = IF Len(records') < Len(wchunks) THEN "insert"
                                ELSE IF UsesEc2Data(worker, payload)
                                THEN "upsert"
                                ELSE "embed"
    /\ UNCHANGED <<started, payload, wchunks, wvectors, index, extracted,
                   fetchedOk>>
    /\ UNCHANGED <<worker, routeVars>>
    /\ UNCHANGED offIngest

\* embedQuery of the next chunk ends
EmbedReturns ==
    /\ wpc = "embed"
    /\ \E outcome \in EmbedOutcomes :
          /\ wlog' = Append(wlog, <<"embed", outcome>>)
          /\ IF EmbeddingFails(outcome)
             THEN /\ wpc' = "errored"
                  /\ UNCHANGED wvectors
             ELSE /\ wvectors' =
                        Append(wvectors,
                               IF outcome = "vector"
                               THEN wchunks[Len(wvectors) + 1]
                               ELSE Missing)
                  /\ wpc' = IF Len(wvectors') < Len(wchunks) THEN "embed"
                            ELSE "upsert"
    /\ UNCHANGED <<started, payload, wchunks, records, store, index, extracted,
                   fetchedOk>>
    /\ UNCHANGED <<worker, routeVars>>
    /\ UNCHANGED offIngest

\* env.VECTORIZE.upsert ends, and with it the run
UpsertReturns ==
    /\ wpc = "upsert"
    /\ \E outcome \in UpsertOutcomes :
          /\ wlog' = Append(wlog, <<"upsert", outcome>>)
          /\ IF outcome = "ok"
             THEN /\ index' = index \o UpsertBatch(worker, records, wvectors)
                  /\ wpc' = "complete"
             ELSE /\ wpc' = "errored"
                  /\ UNCHANGED index
    /\ UNCHANGED <<started, payload, wchunks, records, wvectors, store,
                   extracted, fetchedOk>>
    /\ UNCHANGED <<worker, routeVars>>
    /\ UNCHANGED offIngest

\* ------------------------------------------------------------------------
\* Workflow runs side by side: the steps of RAGWorkflow.run that write to
\* table pdfs and to the vector index, for two instances that the runtime
\* runs at the same time, with a query reading both in between. The steps
\* of a run before its first INSERT write to neither (they are the actions
\* of the one run above).
\* ------------------------------------------------------------------------

\* the instances that run side by side
Runs == {1, 2}

\* what a run has when its first step is over: the number of its chunks,
\* and the number of embeddings of its payload, Missing when it makes them
RunInputs(w) ==
    IF w = "src/index.js"
    THEN [chunks : 0..MaxChunks, supplied : 0..MaxChunks]
             \cup {[chunks |-> 1, supplied |-> Missing]}
    ELSE [chunks : 0..MaxChunks, supplied : {Missing}]

\* the step a run is at with done of its total records created
AfterInsert(done, total, supplied) ==
    IF done < total THEN "insert"
    ELSE IF supplied # Missing THEN "upsert"
    ELSE IF total > 0 THEN "embed"
    ELSE "upsert"

RunsInit ==
    /\ runWorker \in Workers
    /\ runInput \in [Runs -> RunInputs(runWorker)]
    /\ runPc = [r \in Runs |->
                   AfterInsert(0, runInput[r].chunks, runInput[r].supplied)]
    /\ runRecords = [r \in Runs |-> <<>>]
    /\ runVectors = [r \in Runs |->
                        IF runInput[r].supplied = Missing THEN <<>>
                        ELSE [i \in 1..runInput[r].supplied |-> i]]
    /\ pdfs = <<>>
    /\ vectorize = <<>>
    /\ readerPc = "idle"
    /\ readerIds = {}
    /\ readerRows = {}

\* the INSERT of the next chunk of a run ends
RunInsertReturns ==
    /\ \E r \in Runs, outcome \in InsertOutcomes :
          /\ runPc[r] = "insert"
          /\ IF InsertFails(outcome)
             THEN /\ runPc' = [runPc EXCEPT ![r] = "errored"]
                  /\ UNCHANGED <<runRecords, pdfs>>
             ELSE LET id == Len(pdfs) + 1
                      chunk == Len(runRecords[r]) + 1
                  IN  /\ pdfs' = Append(pdfs, [id |-> id, run |-> r,
                                               chunk |-> chunk])
                      /\ runRecords' =
                             [runRecords EXCEPT ![r] = Append(@, id)]
                      /\ runPc' =
                             [runPc EXCEPT ![r] =
                                 AfterInsert(chunk, runInput[r].chunks,
                                             runInput[r].supplied)]
    /\ UNCHANGED <<runWorker, runInput, runVectors, vectorize, readerPc,
                   readerIds, readerRows>>
    /\ UNCHANGED offRuns

\* embedQuery of the next chunk of a run ends
RunEmbedReturns ==
    /\ \E r \in Runs, outcome \in EmbedOutcomes :
          /\ runPc[r] = "embed"
          /\ IF EmbeddingFails(outcome)
             THEN /\ runPc' = [runPc EXCEPT ![r] = "errored"]
                  /\ UNCHANGED runVectors
             ELSE /\ runVectors' =
                        [runVectors EXCEPT ![r] =
                            Append(@, IF outcome = "vector" THEN Len(@) + 1
                                      ELSE Missing)]
                  /\ runPc' =
                        [runPc EXCEPT ![r] =
                            IF Len(runVectors'[r]) < runInput[r].chunks
                            THEN "embed" ELSE "upsert"]
    /\ UNCHANGED <<runWorker, runInput, runRecords, pdfs, vectorize, readerPc,
                   readerIds, readerRows>>
    /\ UNCHANGED offRuns

\* env.VECTORIZE.upsert of a run ends, and with it the run
RunUpsertReturns ==
    /\ \E r \in Runs, outcome \in UpsertOutcomes :
          /\ runPc[r] = "upsert"
          /\ IF outcome = "ok"
             THEN /\ vectorize' =
                        vectorize \o UpsertBatch(runWorker, runRecords[r],
                                                 runVectors[r])
                  /\ runPc' = [runPc EXCEPT ![r] = "complete"]
             ELSE /\ runPc' = [runPc EXCEPT ![r] = "errored"]
                  /\ UNCHANGED vectorize
    /\ UNCHANGED <<runWorker, runInput, runRecords, runVectors, pdfs,
                   readerPc, readerIds, readerRows>>
    /\ UNCHANGED offRuns

\* retrieveDocs of a query: VECTORIZE.query answers with entries of the index
ReaderQueryReturns ==
    /\ readerPc = "idle"
    /\ readerIds' = {vectorize[i].id : i \in 1..Len(vectorize)}
    /\ readerPc' = "select"
    /\ UNCHANGED <<runWorker, runInput, runPc, runRecords, runVectors, pdfs,
                   vectorize, readerRows>>
    /\ UNCHANGED offRuns

\* retrieveDocs of a query: the SELECT answers with the rows of these ids
ReaderSelectReturns ==
    /\ readerPc = "select"
    /\ readerRows' = {id \in readerIds :
                         \E j \in 1..Len(pdfs) : IdToString(pdfs[j].id) = id}
    /\ readerPc' = "done"
    /\ UNCHANGED <<runWorker, runInput, runPc, runRecords, runVectors, pdfs,
                   vectorize, readerIds>>
    /\ UNCHANGED offRuns

RunsNext ==
    \/ RunInsertReturns
    \/ RunEmbedReturns
    \/ RunUpsertReturns
    \/ ReaderQueryReturns
    \/ ReaderSelectReturns

\* no run and no query beside it is under way
RunsIdle ==
    /\ runWorker = "part_004"
    /\ runInput = [r \in Runs |-> [chunks |-> 0, supplied |-> Missing]]
    /\ runPc = [r \in Runs |-> "complete"]
    /\ runRecords = [r \in Runs |-> <<>>]
    /\ runVectors = [r \in Runs |-> <<>>]
    /\ pdfs = <<>>
    /\ vectorize = <<>>
    /\ readerPc = "done"
    /\ readerIds = {}
    /\ readerRows = {}

IngestNext ==
    \/ IngestRoute
    \/ Ec2Returns
    \/ WorkflowCreateReturns
    \/ RunStart
    \/ FetchReturns
    \/ ProbeReturns
    \/ AltFetchReturns
    \/ ToMarkdownReturns
    \/ InsertReturns
    \/ EmbedReturns
    \/ UpsertReturns

\* no request and no run is under way
IngestIdle == IngestInit /\ worker = "part_004"

QueryNext ==
    \/ QueryRoute
    \/ EmbeddingReturns
    \/ VectorQueryFails
    \/ VectorQueryReturns
    \/ StoreFetchFails
    \/ StoreFetchReturnsNothing
    \/ StoreFetchReturns
    \/ WebSearchReturns
    \/ CompletionReturns

\* no chunkText call is under way
ChunkIdle ==
    /\ cpc = "done"
    /\ text = <<>>
    /\ chunkSize = 1
    /\ overlap = 0
    /\ start = 0
    /\ chunks = <<>>
    /\ windows = <<>>
    /\ spans = <<>>
    /\ origin = <<<<>>>>
    /\ chunkedData = <<>>

\* no request is under way
QueryIdle == QueryInit /\ searchConfigured

\* a request arrives at the worker
QueryStart ==
    QueryInit /\ ChunkIdle /\ SnippetIdle /\ IngestIdle /\ RunsIdle

SpecQuery == QueryStart /\ [][QueryNext]_vars

ChunkNext == ChunkTextEnter \/ ChunkTextIterate \/ ChunkAgain

\* chunkText is called
ChunkStart ==
    ChunkInit /\ QueryIdle /\ SnippetIdle /\ IngestIdle /\ RunsIdle

SpecChunk == ChunkStart /\ [][ChunkNext]_vars

SnippetNext == BuildContextSnippetCall

\* buildContextSnippet is called
SnippetStart ==
    SnippetInit /\ ChunkIdle /\ QueryIdle /\ IngestIdle /\ RunsIdle

SpecSnippet == SnippetStart /\ [][SnippetNext]_vars

\* a POST /ingest request arrives at the worker
IngestStart ==
    IngestInit /\ ChunkIdle /\ QueryIdle /\ SnippetIdle /\ RunsIdle

SpecIngest == IngestStart /\ [][IngestNext]_vars

\* the runtime starts the instances
RunsStart ==
    RunsInit /\ ChunkIdle /\ QueryIdle /\ SnippetIdle /\ IngestIdle

SpecRuns == RunsStart /\ [][RunsNext]_vars

\* ------------------------------------------------------------------------
\* Properties of the chunker
\* ------------------------------------------------------------------------

\* C8: with chunkSize >= 1 and 0 <= overlap < chunkSize, the window start
\* strictly increases at every iteration of the sliding-window loop.
C8_StartStrictlyIncreases ==
    [][(cpc = "loop" /\ overlap < chunkSize) => start' > start]_vars

\* C9: every chunk chunkText emits is at most chunkSize long, and chunking
\* an emitted chunk again with the same parameters returns that chunk alone.
C9_ChunksFitAndRechunkIsIdentity ==
    overlap < chunkSize =>
        /\ \A i \in 1..Len(chunks) : Len(chunks[i]) <= chunkSize
        /\ (cpc = "done" /\ origin # <<>>) => chunks = origin

\* position p of text lies in a chunk that was pushed
InSomeChunk(p) ==
    \E j \in 1..Len(spans) :
        /\ spans[j][1] <= p
        /\ p < spans[j][2]
        /\ chunks[j] = Substring(text, spans[j])

\* the windows cut so far start at 0 and leave no gap between them
WindowsContiguous ==
    /\ (windows # <<>> => windows[1][1] = 0)
    /\ \A i \in 2..Len(windows) : windows[i][1] <= windows[i - 1][2]

\* the last window reaches the end of the text and every character that is
\* not whitespace lies in a pushed chunk
WindowsCoverText ==
    /\ WindowsContiguous
    /\ windows # <<>>
    /\ windows[Len(windows)][2] >= Len(text)
    /\ \A p \in 0..(Len(text) - 1) :
          text[p + 1] \notin Whitespace => InSomeChunk(p)

\* the loop is not over and has not been cut off: ChunkTextIterate can run
LoopGoesOn == start < Len(text) /\ Len(windows) < MaxIterations

\* C10: for a text longer than chunkSize and 0 <= overlap < chunkSize the
\* windows cut by chunkText cover the text: the first starts at 0, each next
\* one starts at or before the end of the one before, and a last window
\* reaches len(text), so that every character that is not whitespace is in
\* an emitted chunk. A last window exists when the loop ends: the loop is
\* deterministic in start, so it ends within len(text) iterations or never.
C10_WindowsCoverText ==
    (cpc # "call" /\ Len(text) > chunkSize /\ overlap < chunkSize) =>
        /\ WindowsContiguous
        /\ \/ cpc = "done" /\ WindowsCoverText
           \/ cpc = "loop" /\ LoopGoesOn

\* what does hold: every call that returns has covered its text
ReturnedWindowsCoverText ==
    overlap < chunkSize =>
        /\ WindowsContiguous
        /\ (cpc = "done" /\ Len(text) > chunkSize) => WindowsCoverText

\* C11: for every text no longer than chunkSize, the empty text included,
\* and for every overlap, chunkText returns the one-element list [text] with
\* the text unmodified: nothing is trimmed and nothing is cut.
C11_ShortTextIsOneChunk ==
    (cpc # "call" /\ Len(text) <= chunkSize) =>
        /\ cpc = "done"
        /\ chunks = <<text>>
        /\ windows = <<>>

\* a text that fills chunkSize and starts with whitespace came back as it
\* was, with an overlap that is not smaller than chunkSize
C11_Witness ==
    /\ cpc = "done"
    /\ origin = <<>>
    /\ Len(text) = chunkSize
    /\ text[1] \in Whitespace
    /\ overlap >= chunkSize
    /\ chunks = <<text>>

\* ------------------------------------------------------------------------
\* Properties of the query pipeline
\* ------------------------------------------------------------------------

\* the number of requests of one kind made so far
CallCount(kind) == Cardinality({i \in 1..Len(calls) : calls[i] = kind})

\* retrieveDocs has returned or thrown, and answerQuery has gone on
PastRetrieval == qpc \in {"webSearch", "completion", "done"}

\* the outcomes of the completion request that carry no answer text
CompletionErrors == {"exception", "notOk", "noCandidates", "noParts"}

\* C1: in db-only mode, when retrieval returns no match or a top match whose
\* score is strictly below scoreThreshold, the answer is exactly "NOT_IN_DB"
\* and the completion service is not called; otherwise the completion
\* service is called exactly once, with the db-only system prompt, and the
\* answer returned is the text of the completion.
C1_DbOnlyThresholdGate ==
    (qmode = "db-only" /\ PastRetrieval /\ retrievalFailure = "none") =>
        IF \/ Len(retrieval.matches) = 0
           \/ retrieval.matches[1].score < qthreshold
        THEN /\ qpc = "done"
             /\ result.kind = "returned"
             /\ result.answer = "NOT_IN_DB"
             /\ response.status = 200
             /\ response.answer = "NOT_IN_DB"
             /\ CallCount("completion") = 0
        ELSE /\ CallCount("completion") = 1
             /\ sysPrompt = "DB_ONLY"
             /\ (qpc = "done" /\ result.kind = "returned") =>
                    /\ completion.outcome \notin CompletionErrors
                    /\ result.answer = completion.text
                    /\ response.answer = completion.text

\* a db-only query whose top score equals the threshold got a generated answer
C1_Witness ==
    /\ qmode = "db-only"
    /\ qpc = "done"
    /\ Len(retrieval.matches) > 0
    /\ retrieval.matches[1].score = qthreshold
    /\ result.answer = "generated"

\* C2: in hybrid mode the web search is invoked if and only if retrieval
\* produced no match or the top score reported by the vector index is below
\* the scoreThreshold the caller passed to answerQuery.
C2_WebSearchIffBelowCallerThreshold ==
    (qmode = "hybrid" /\ PastRetrieval) =>
        (webInvoked <=>
            \/ Len(retrieval.matches) = 0
            \/ retrieval.matches[1].score < qthreshold)

\* C3: in both modes, when the embedding call, the vector-index query or the
\* store fetch fails, the query ends as failed: answerQuery throws, /query
\* answers with an error, and neither web search nor completion is called.
C3_RetrievalFailureFailsQuery ==
    retrievalFailure # "none" =>
        /\ qpc = "done"
        /\ result.kind = "thrown"
        /\ response.status = 500
        /\ ~webInvoked
        /\ CallCount("webSearch") = 0
        /\ CallCount("completion") = 0

\* C4: a hybrid query whose web search is invoked and fails (exception,
\* non-OK response, missing credentials) does not fail: the failure counts
\* as an empty web result, the context has no "Web Search Results" block,
\* the completion is still called and its text is returned as the answer.
C4_WebFailureDegrades ==
    (qmode = "hybrid" /\ webInvoked /\ webOutcome \in WebFailures) =>
        /\ ~HasBlock(context, WebBlock)
        /\ sysPrompt = "HYBRID"
        /\ CallCount("completion") = 1
        /\ calls[Len(calls)] = "completion"
        /\ qpc \in {"completion", "done"}
        /\ qpc = "done" =>
              IF completion.outcome \in CompletionErrors
              THEN result.kind = "thrown"
              ELSE /\ result.kind = "returned"
                   /\ result.answer = completion.text
                   /\ response.status = 200
                   /\ response.answer = completion.text

\* a hybrid query answered although its web search raised an exception
C4_Witness ==
    /\ qmode = "hybrid"
    /\ webInvoked
    /\ webOutcome = "exception"
    /\ qpc = "done"
    /\ result.answer = "generated"

\* C5: a hybrid query whose retrieval returned at least one match hands back
\* a provenance list with one entry {id, source, score} per match, in
\* ranking order, so that the sources of the /query response are not empty.
C5_HybridCarriesProvenance ==
    (/\ qmode = "hybrid"
     /\ qpc = "done"
     /\ result.kind = "returned"
     /\ Len(retrieval.matches) > 0) =>
        /\ result.hasProvenance
        /\ result.provenance = Provenance(retrieval.matches)
        /\ response.sources = Provenance(retrieval.matches)

\* C6: for a mode other than "db-only" and "hybrid" answerQuery fails with an
\* invalid-input error, returns no answer, takes no default mode and calls
\* no collaborator.
C6_InvalidModeRejected ==
    (qpc # "idle" /\ qmode \notin {"db-only", "hybrid"}) =>
        /\ qpc = "done"
        /\ result.kind = "thrown"
        /\ result.error = "mode must be 'db-only' or 'hybrid'"
        /\ result.answer = Undefined
        /\ response.status = 500
        /\ calls = <<>>
        /\ kRequested = 0
        /\ ~webInvoked
        /\ sysPrompt = "none"

\* a request with mode "fast" was rejected
C6_Witness ==
    /\ qmode = "fast"
    /\ qpc = "done"
    /\ result.kind = "thrown"

\* C7: in both modes, when the completion call raises an error, answers with
\* a non-OK status or returns a response without answer text (no candidates,
\* or a candidate without a text part), callGeminiWithContext fails and
\* answerQuery returns no result that carries an answer.
C7_UnusableCompletionFails ==
    (qpc = "done" /\ completion.outcome \in
        {"exception", "notOk", "noCandidates", "noParts", "partWithoutText"}) =>
        /\ result.kind = "thrown"
        /\ response.status = 500

\* C13: a db-only query that retrieved at least one match returns a
\* provenance with exactly one entry per retrieved match, in ranking order,
\* with that match's id, source and score, both when the answer is generated
\* and when it is "NOT_IN_DB" because the top score is below the threshold;
\* with zero matches the provenance is empty.
C13_DbOnlyProvenancePerMatch ==
    (qmode = "db-only" /\ qpc = "done" /\ result.kind = "returned") =>
        /\ result.hasProvenance
        /\ Len(result.provenance) = Len(retrieval.matches)
        /\ \A i \in 1..Len(retrieval.matches) :
              /\ result.provenance[i].id = retrieval.matches[i].id
              /\ result.provenance[i].source = retrieval.matches[i].source
              /\ result.provenance[i].score = retrieval.matches[i].score
        /\ response.sources = result.provenance

\* a db-only query answered "NOT_IN_DB" for a top score below the threshold
\* and named its two matches
C13_Witness ==
    /\ qmode = "db-only"
    /\ qpc = "done"
    /\ result.answer = "NOT_IN_DB"
    /\ completion.outcome = "none"
    /\ Len(retrieval.matches) = 2
    /\ retrieval.matches[1].score < qthreshold
    /\ Len(result.provenance) = 2

\* retrieveDocs got an answer from the vector index and returned
RetrieveDocsReturned ==
    /\ PastRetrieval
    /\ CallCount("vectorQuery") = 1
    /\ retrievalFailure = "none"

\* C14: retrieveDocs(query, k) returns at most k matches, ordered by
\* descending score, and returns an empty list, not an error, when the
\* vector index reports zero matches.
C14_RetrieveDocsBoundedAndRanked ==
    RetrieveDocsReturned =>
        /\ ~retrieval.threw
        /\ Len(retrieval.matches) <= kRequested
        /\ \A i, j \in 1..Len(retrieval.matches) :
              i < j => retrieval.matches[i].score >= retrieval.matches[j].score
        /\ vmatches = <<>> => retrieval.matches = <<>>

\* retrieveDocs returned two matches whose ranking is not the order of
\* their ids
C14_Witness ==
    /\ RetrieveDocsReturned
    /\ kRequested = 2
    /\ Len(retrieval.matches) = 2
    /\ retrieval.matches[1].id > retrieval.matches[2].id
    /\ retrieval.matches[1].score > retrieval.matches[2].score

\* C15: the context that hybrid mode hands to the completion has a
\* "Database Results" block if and only if retrieval returned at least one
\* match, and a "Web Search Results" block if and only if the web search was
\* invoked and returned at least one result, the database block first; with
\* zero matches and a web search that returns results it has web results
\* only.
C15_HybridContextBlocks ==
    (qmode = "hybrid" /\ sysPrompt = "HYBRID") =>
        LET db == Len(retrieval.matches) > 0
            web == webInvoked /\ webOutcome = "items"
        IN  /\ HasBlock(context, DatabaseBlock) <=> db
            /\ HasBlock(context, WebBlock) <=> web
            /\ context = (IF db THEN <<DatabaseBlock>> ELSE <<>>)
                             \o (IF web THEN <<WebBlock>> ELSE <<>>)
            /\ (Len(retrieval.matches) = 0 /\ webOutcome = "items") =>
                   context = <<WebBlock>>

\* a hybrid query with a match below the threshold and a web search that
\* returned results got both blocks, the database block first
C15_Witness ==
    /\ qmode = "hybrid"
    /\ qpc = "done"
    /\ result.kind = "returned"
    /\ Len(retrieval.matches) > 0
    /\ webOutcome = "items"
    /\ context = <<DatabaseBlock, WebBlock>>

\* C20: the /query response has a sourceDetails list if and only if the
\* provenance is not empty; the list has one entry per provenance entry, in
\* the same order, and the relevance of an entry is "High" for a score above
\* 0.8, "Medium" for a score above 0.6 and at most 0.8, and "Low" for a score
\* of at most 0.6.
C20_SourceDetailsClassifyRelevance ==
    (qpc = "done" /\ response.status = 200) =>
        /\ response.hasSourceDetails <=> Len(result.provenance) > 0
        /\ response.hasSourceDetails =>
              /\ Len(response.sourceDetails) = Len(result.provenance)
              /\ \A i \in 1..Len(result.provenance) :
                    LET entry == response.sourceDetails[i]
                        score == result.provenance[i].score
                    IN  /\ entry.docId = result.provenance[i].id
                        /\ entry.source = result.provenance[i].source
                        /\ entry.score = score
                        /\ score > 8000 => entry.relevance = "High"
                        /\ (6000 < score /\ score <= 8000) =>
                               entry.relevance = "Medium"
                        /\ score <= 6000 => entry.relevance = "Low"

\* a response classified a score of 0.8 as "Medium" and one of 0.6 as "Low"
C20_Witness ==
    /\ qpc = "done"
    /\ response.status = 200
    /\ response.hasSourceDetails
    /\ Len(response.sourceDetails) = 2
    /\ response.sourceDetails[1].score = 8000
    /\ response.sourceDetails[1].relevance = "Medium"
    /\ response.sourceDetails[2].score = 6000
    /\ response.sourceDetails[2].relevance = "Low"

\* ------------------------------------------------------------------------
\* Properties of buildContextSnippet
\* ------------------------------------------------------------------------

IsTrimOf(t, str) ==
    \E a \in 1..(Len(str) + 1), b \in 0..Len(str) :
        /\ t = SubSeq(str, a, b)
        /\ \A k \in 1..Len(str) : (k < a \/ k > b) => str[k] \in Whitespace
        /\ t # <<>> => (t[1] \notin Whitespace /\ t[Len(t)] \notin Whitespace)

C16_ValidIngestAnswers201 ==
    (ipc = "done" /\ IngestRejection(ibody) = "none") =>
        /\ iresponse.status = 201
        /\ ~iresponse.json
        /\ iresponse.body =
               IF ibody.pdfUrl # Absent
               THEN <<"Created PDF note: ", ibody.filename>>
               ELSE <<"Created note">>

\* the request body has this field
Supplied(v) == v # Absent

\* C17: POST /ingest answers 400 "Missing text or pdfUrl" to a request with
\* neither text nor pdfUrl, and 400 "Missing filename for PDF" to a request
\* with a pdfUrl and no filename; in both cases no workflow instance is
\* created and no external service is called.
C17_InvalidIngestRejected ==
    LET neither == ~Supplied(ibody.text) /\ ~Supplied(ibody.pdfUrl)
        noFilename == Supplied(ibody.pdfUrl) /\ ~Supplied(ibody.filename)
    IN  (ipc # "idle" /\ (neither \/ noFilename)) =>
            /\ ipc = "done"
            /\ iresponse.status = 400
            /\ ~iresponse.json
            /\ neither => iresponse.body = <<"Missing text or pdfUrl">>
            /\ noFilename => iresponse.body = <<"Missing filename for PDF">>
            /\ instances = <<>>
            /\ icalls = <<>>
            /\ started = 0
            /\ wpc = "none"
            /\ wlog = <<>>
            /\ store = <<>>
            /\ index = <<>>

\* a request with a text and a pdfUrl but no filename was rejected
C17_Witness ==
    /\ ipc = "done"
    /\ ibody.text = "note"
    /\ Supplied(ibody.pdfUrl)
    /\ ~Supplied(ibody.filename)
    /\ iresponse.status = 400
    /\ iresponse.body = <<"Missing filename for PDF">>

\* the calls of the run that ended in one of these ways
CallsEnded(outcomes) == {i \in 1..Len(wlog) : wlog[i] \in outcomes}

\* a store insert or an embedding call that failed or returned nothing
StoreOrEmbeddingFailures ==
    {<<"insert", "exception">>, <<"insert", "noRecord">>,
     <<"embed", "exception">>, <<"embed", "none">>}

\* C18: in a workflow run, when a store insert fails or returns no record,
\* or an embedding call fails or returns no vector, for any chunk, no later
\* step runs: that call is the last of the run, nothing of the run is
\* upserted into the vector index, and the run ends as failed, never as
\* completed.
C18_FailedStepAbortsRun ==
    CallsEnded(StoreOrEmbeddingFailures) # {} =>
        /\ wpc = "errored"
        /\ CallsEnded(StoreOrEmbeddingFailures) = {Len(wlog)}
        /\ \A i \in 1..Len(wlog) : wlog[i][1] # "upsert"
        /\ \A i \in 1..Len(index), j \in 1..Len(records) :
              index[i].id # IdToString(records[j])

\* the embedding of the second chunk returned no vector after both records
\* were created, and the run ended as failed
C18_Witness ==
    /\ wpc = "errored"
    /\ Len(records) = 2
    /\ Len(wvectors) = 1
    /\ wlog[Len(wlog)] = <<"embed", "none">>
    /\ index = <<>>

\* C19: once the fetch of the document reference has answered OK, the
\* text-extraction step always ends with a text chunk, extracted or a
\* placeholder, whatever follows (an HTML viewer page, an AI extractor that
\* fails or returns no text, bytes without text, a failure while probing or
\* fetching the direct PDF URL): the run is never failed by these.
C19_ExtractionAlwaysYieldsText ==
    (fetchedOk /\ wpc \notin {"probe", "altFetch", "toMarkdown"}) =>
        /\ extracted # "none"
        /\ Len(wchunks) >= 1

\* ------------------------------------------------------------------------
\* Properties of the /query route
\* ------------------------------------------------------------------------

\* C21: a GET /query request without a mode parameter is processed in
\* db-only mode, the documented default, so no web search is issued for it.
C21_NoModeMeansDbOnly ==
    (qpc # "idle" /\ params.mode = Absent) =>
        /\ qmode = "db-only"
        /\ ModeBranch(qmode) = "db-only"
        /\ ~webInvoked
        /\ CallCount("webSearch") = 0

\* C30: GET /query takes the defaults topK = 8 and scoreThreshold = 0.72
\* only for a parameter that is absent or is not a number; every number the
\* caller supplies, 0 included, reaches answerQuery unchanged.
C30_NumbersPassUnchanged ==
    qpc # "idle" =>
        LET k == ParseInt(params.topK)
            t == ParseFloat(params.scoreThreshold)
        IN  /\ qtopK = IF k.nan THEN RouteDefaultTopK ELSE k.value
            /\ qthreshold = IF t.nan THEN RouteDefaultScoreThreshold
                            ELSE t.value

\* C28: in hybrid mode the number of neighbours requested from the vector
\* index is the topK that answerQuery was called with, so the "Database
\* Results" block never lists more than topK documents.
C28_HybridRequestsCallerTopK ==
    (qmode = "hybrid" /\ qpc # "idle") =>
        /\ kRequested = qtopK
        /\ Len(dbResults) <= qtopK

\* what the code does: a hybrid query has more database results than the
\* topK it was called with
HybridListsMoreThanTopK ==
    /\ qmode = "hybrid"
    /\ qpc = "done"
    /\ qtopK = 1
    /\ Len(dbResults) = 2
    /\ HasBlock(context, DatabaseBlock)

\* ------------------------------------------------------------------------
\* Properties of retrieveDocs
\* ------------------------------------------------------------------------

\* the positions of the matches of the index whose id is the id of a row
\* the store returned; the i-th of them, in the order of the index, is the
\* one with i of them at or before it
MatchesWithRecord ==
    {i \in 1..Len(vmatches) :
        \E r \in qrows : IdToString(r.id) = vmatches[i].id}

\* C23: retrieveDocs returns exactly the matches of the vector index whose id
\* has a record in the document store, in the order of the index, each with
\* the score of the index and the record of the same id; a match whose
\* record is missing is dropped and the query does not fail for it, and
\* when all are missing the list is empty.
C23_MatchesAreHydratedInIndexOrder ==
    (RetrieveDocsReturned /\ CallCount("storeFetch") = 1) =>
        LET got == retrieval.matches
        IN  /\ ~retrieval.threw
            /\ Len(got) = Cardinality(MatchesWithRecord)
            /\ \A at \in MatchesWithRecord :
                  LET i == Cardinality({p \in MatchesWithRecord : p <= at})
                  IN  /\ IdToString(got[i].id) = vmatches[at].id
                      /\ got[i].score = vmatches[at].score
                      /\ [id |-> got[i].id, filename |-> got[i].source]
                             \in qrows
            /\ qrows = {} => got = <<>>
            /\ (qpc = "done" /\ completion.outcome = "none") =>
                   result.kind = "returned"

\* the store had no record for the first of two matches, and retrieveDocs
\* returned the second one alone, with its score
C23_Witness ==
    /\ RetrieveDocsReturned
    /\ Len(vmatches) = 2
    /\ vmatches[1].score > vmatches[2].score
    /\ Cardinality(qrows) = 1
    /\ MatchesWithRecord = {2}
    /\ Len(retrieval.matches) = 1
    /\ retrieval.matches[1].score = vmatches[2].score
    /\ qpc = "done"
    /\ result.kind = "returned"

\* ------------------------------------------------------------------------
\* Properties of the order of the requests of answerQuery
\* ------------------------------------------------------------------------

\* the requests of answerQuery to its collaborators, in the order of the
\* pipeline
CallOrder ==
    <<"embedding", "vectorQuery", "storeFetch", "webSearch", "completion">>

CallKinds == {CallOrder[i] : i \in 1..Len(CallOrder)}

\* the place of a request in the pipeline
CallRank(kind) ==
    CASE kind = "embedding" -> 1
      [] kind = "vectorQuery" -> 2
      [] kind = "storeFetch" -> 3
      [] kind = "webSearch" -> 4
      [] kind = "completion" -> 5

\* C25: in every run of answerQuery the requests to the collaborators are
\* made one after another in the order embedding, vector-index query, store
\* fetch, web search (hybrid mode only), completion: a request starts only
\* when the one before it has returned, each is made at most once, and the
\* web search is never made in db-only mode. (A list whose neighbours
\* increase in rank increases throughout and has no request twice.)
C25_CallsAreSequential ==
    /\ \A i \in 1..Len(calls) : calls[i] \in CallKinds
    /\ \A i \in 1..(Len(calls) - 1) :
          CallRank(calls[i]) < CallRank(calls[i + 1])
    /\ qpc \in CallKinds => (calls # <<>> /\ calls[Len(calls)] = qpc)
    /\ qpc = "idle" => calls = <<>>
    /\ qmode = "db-only" =>
          /\ \A i \in 1..Len(calls) : calls[i] # "webSearch"
          /\ ~webInvoked

\* between two states the list of requests grows by the one request that is
\* then awaited, and only when the request awaited before has ended
C25_OneRequestAtATime ==
    [][calls' # calls =>
          /\ Len(calls') = Len(calls) + 1
          /\ SubSeq(calls', 1, Len(calls)) = calls
          /\ qpc' = calls'[Len(calls')]
          /\ qpc # qpc']_vars

\* a hybrid query made all five requests, each once, in the order of the
\* pipeline
C25_Witness ==
    /\ qmode = "hybrid"
    /\ qpc = "done"
    /\ calls = CallOrder
    /\ result.kind = "returned"

\* ------------------------------------------------------------------------
\* Properties of the boundaries chosen by chunkText
\* ------------------------------------------------------------------------

SentenceEnds == {".", "?", "!"}

\* the largest 0-based index at or before bound whose character is in set,
\* or -1
LastAtOrBefore(str, set, bound) ==
    LET hits == {k \in 0..(Len(str) - 1) : k <= bound /\ str[k + 1] \in set}
    IN  IF hits = {} THEN -1 ELSE CHOOSE k \in hits : \A j \in hits : j <= k

\* the cut as stated: after the last sentence end that is no earlier than
\* from + 0.7 * size, else at the last whitespace that is no earlier than
\* from + 0.8 * size, else at from + size
StatedCut(str, from, size) ==
    LET sentence == LastAtOrBefore(str, SentenceEnds, from + size)
        space == LastAtOrBefore(str, Whitespace, from + size)
    IN  IF sentence >= 0 /\ 10 * sentence >= 10 * from + 7 * size
        THEN sentence + 1
        ELSE IF space >= 0 /\ 10 * space >= 10 * from + 8 * size
        THEN space
        ELSE from + size

\* C22: in every iteration of chunkText whose candidate boundary
\* start + chunkSize is before the end of the text, the cut is just after the
\* last '.', '?' or '!' at or before the candidate boundary when that
\* position is no earlier than start + 0.7 * chunkSize; otherwise at the last
\* whitespace at or before the candidate boundary when that position is no
\* earlier than start + 0.8 * chunkSize; otherwise exactly start + chunkSize.
C22_CutIsAsStated ==
    \A i \in 1..Len(windows) :
        windows[i][1] + chunkSize < Len(text) =>
            windows[i][2] = StatedCut(text, windows[i][1], chunkSize)

\* what does hold of every window: a boundary is taken only when it lies
\* strictly after the ratio of the window
CutIsStrictlyAfterRatio ==
    \A i \in 1..Len(windows) :
        LET from == windows[i][1]
            cut == windows[i][2]
            sentence == LastAtOrBefore(text, SentenceEnds, from + chunkSize)
            space == LastAtOrBefore(text, Whitespace, from + chunkSize)
        IN  from + chunkSize < Len(text) =>
                cut = IF 10 * sentence > 10 * from + 7 * chunkSize
                      THEN sentence + 1
                      ELSE IF 10 * space > 10 * from + 8 * chunkSize
                      THEN space
                      ELSE from + chunkSize

\* ------------------------------------------------------------------------
\* Properties of chunkTextWithMetadata
\* ------------------------------------------------------------------------

\* C26: for every text longer than chunkSize, the output of
\* chunkTextWithMetadata has no empty chunk and no chunk that starts or ends
\* with whitespace; and for every text, the chunk at 0-based position i has
\* chunkIndex = i, totalChunks = the number of chunks of the output, and a
\* chunkSize field equal to the length of its text.
C26_ChunksAreTrimmedAndNumbered ==
    cpc = "done" =>
        /\ Len(chunkedData) = Len(chunks)
        /\ \A i \in 1..Len(chunkedData) :
              LET c == chunkedData[i]
              IN  /\ c.text = chunks[i]
                  /\ c.chunkIndex = i - 1
                  /\ c.totalChunks = Len(chunkedData)
                  /\ c.chunkSize = Len(c.text)
                  /\ Len(text) > chunkSize =>
                        /\ Len(c.text) > 0
                        /\ c.text[1] \notin Whitespace
                        /\ c.text[Len(c.text)] \notin Whitespace

\* a text longer than chunkSize came back in two numbered chunks: a window
\* of whitespace only was dropped, and a window that began with whitespace
\* gave a trimmed chunk
C26_Witness ==
    /\ cpc = "done"
    /\ origin = <<>>
    /\ Len(text) > chunkSize
    /\ Len(chunkedData) = 2
    /\ Len(windows) > 2
    /\ chunkedData[2].chunkIndex = 1
    /\ chunkedData[2].totalChunks = 2
    /\ \E i \in 1..Len(windows) :
          /\ text[windows[i][1] + 1] \in Whitespace
          /\ \E k \in windows[i][1]..(windows[i][2] - 1) :
                k < Len(text) /\ text[k + 1] \notin Whitespace

\* ------------------------------------------------------------------------
\* Properties of the workflow instances of a request
\* ------------------------------------------------------------------------

\* C27: for every POST /ingest request that passes validation exactly one
\* workflow instance is created, whatever the outcome of the request to the
\* EC2 processing API (an exception, a status that is not OK, or an OK
\* status with any body); a request never creates two instances.
C27_OneInstancePerRequest ==
    /\ Len(instances) <= 1
    /\ (ipc = "done" /\ IngestRejection(ibody) = "none"
            /\ iresponse # OnError) =>
           Len(instances) = 1

\* what the code does: a request answered as a fallback has left two
\* instances, the first with the parameters taken from the EC2 answer
TwoInstancesOfOneRequest ==
    /\ ipc = "done"
    /\ iresponse.status = 201
    /\ Len(instances) = 2
    /\ instances[1].chunks = Missing
    /\ instances[1].text = Undefined
    /\ instances[2] = LocalParams(ibody)

\* ------------------------------------------------------------------------
\* Properties of the vectors of a run
\* ------------------------------------------------------------------------

\* the entries of the vector index that carry the id of a record of the
\* current run, in the order of the batch
RunEntries ==
    SelectSeq(index,
              LAMBDA e : \E j \in 1..Len(records) : e.id = IdToString(records[j]))

LocalRunsPairRecordWithItsVector ==
    (wpc = "complete" /\ ~UsesEc2Data(worker, payload)) =>
        /\ Len(RunEntries) = Len(wchunks)
        /\ \A i \in 1..Len(RunEntries) :
              /\ RunEntries[i].id = IdToString(records[i])
              /\ RunEntries[i].values = wchunks[i]

\* ------------------------------------------------------------------------
\* Properties of the runs side by side
\* ------------------------------------------------------------------------

\* the ids of the rows of table pdfs, as strings
StoredIds == {IdToString(pdfs[j].id) : j \in 1..Len(pdfs)}

\* the run has an entry in the vector index
HasVectors(r) ==
    \E i \in 1..Len(vectorize), j \in 1..Len(runRecords[r]) :
        vectorize[i].id = IdToString(runRecords[r][j])

\* C29: at every point of every workflow run, also with another run and a
\* query going on beside it, every id in the vector index is the id of a
\* record that is already in the document store: the vectors of a document
\* are upserted only after all of its records exist.
C29_IndexedIdsAreStored ==
    /\ \A i \in 1..Len(vectorize) : vectorize[i].id \in StoredIds
    /\ \A r \in Runs :
          HasVectors(r) =>
              /\ Len(runRecords[r]) = runInput[r].chunks
              /\ runPc[r] = "complete"
    /\ readerPc = "done" => readerRows = readerIds

\* one run had upserted its two vectors while the other had created the
\* first of its two records, and a query beside them found a row for every
\* match
C29_Witness ==
    /\ \E r, o \in Runs :
          /\ r # o
          /\ runPc[r] = "complete"
          /\ Len(runRecords[r]) = 2
          /\ runPc[o] = "insert"
          /\ Len(runRecords[o]) = 1
          /\ runRecords[r][1] < runRecords[o][1]
          /\ runRecords[o][1] < runRecords[r][2]
          /\ HasVectors(r)
    /\ readerPc = "done"
    /\ Cardinality(readerIds) = 2

====
